---------------------------- MODULE Spec2Model ----------------------------
(***************************************************************************)
(* A model of gerrit/projects/branches.py and gerrit/projects/commit.py:   *)
(* the Branches collection (a snapshot `_data` of a project's branch       *)
(* records, polled once by the constructor), the Branch and Commit models  *)
(* and the requests each operation sends to the server.                    *)
(*                                                                         *)
(* Strings are sequences of tokens.  The tokens form a prefix code, and    *)
(* 'r' occurs only at the start of "refs/", so an occurrence of            *)
(* 'refs/heads/' in a modelled string always lies on token boundaries:     *)
(* startswith and replace on token sequences are Python's on the strings.  *)
(* A branch record is [ref, revision]; revision stands for the rest of the *)
(* record's content.  The operations are modelled for type-correct         *)
(* arguments (name: str, BranchInput / MergeInput / CherryPickInput: dict).*)
(***************************************************************************)
EXTENDS Naturals, Sequences, FiniteSets

VARIABLES
    server,   \* the branch records the server lists for the project, in its order
    _data,    \* Branches._data: the cached snapshot
    built,    \* whether Branches.__init__ has run
    last,     \* the last call: its operation, arguments, outcome, result, requests
    prev      \* the call before `last` (tracked by SpecHist only)

vars == <<server, _data, built, last, prev>>

(* ------------------------------ bounds -------------------------------- *)
MaxResp == 3        \* records in a server response (SpecPoll)
MaxBranches == 2    \* branches on the server (Spec, SpecHist)
MaxLen == 4         \* tokens in a ref (SpecName)

(* ------------------------------ strings ------------------------------- *)
Tokens == {"refs/", "heads/", "meta/", "config", "m"}

branch_prefix == <<"refs/", "heads/">>
ConfigRef == <<"refs/", "meta/", "config">>

\* str.startswith
StartsWith(s, p) ==
    /\ Len(s) >= Len(p)
    /\ SubSeq(s, 1, Len(p)) = p

Drop(s, n) == SubSeq(s, n + 1, Len(s))

RECURSIVE Replace(_, _)
\* str.replace(old, ''): every non-overlapping occurrence of old, scanning
\* from the left, is removed
Replace(s, old) ==
    IF s = <<>> THEN <<>>
    ELSE IF StartsWith(s, old) THEN Replace(Drop(s, Len(old)), old)
    ELSE <<Head(s)>> \o Replace(Tail(s), old)

\* Branch.name
name(ref) == Replace(ref, branch_prefix)

(* ------------------------------ records ------------------------------- *)
Revisions == {"abc123", "def456"}

Rec(ref, rev) == [ref |-> ref, revision |-> rev]

RECURSIVE RemoveFirst(_, _)
\* list.remove(x): the first element equal to x is removed
RemoveFirst(s, x) ==
    IF s = <<>> THEN <<>>
    ELSE IF Head(s) = x THEN Tail(s)
    ELSE <<Head(s)>> \o RemoveFirst(Tail(s), x)

RECURSIVE PollLoop(_, _)
\* `for item in result: if item['ref'] == 'refs/meta/config':
\*  result.remove(item)`: the list iterator holds an index into the list it
\* walks; i is the (1-based) index of the next item
PollLoop(result, i) ==
    IF i > Len(result) THEN result
    ELSE IF result[i].ref = ConfigRef
         THEN PollLoop(RemoveFirst(result, result[i]), i + 1)
         ELSE PollLoop(result, i + 1)

\* Branches.poll on the decoded response
poll(response) == PollLoop(response, 1)

\* Branches.keys (iterkeys, materialised)
keys(data) == [i \in 1..Len(data) |-> data[i].ref]

Range(s) == {s[i] : i \in 1..Len(s)}

\* Branches.__len__
__len__(data) == Len(keys(data))

\* Branches.__contains__
__contains__(data, ref) == ref \in Range(keys(data))

\* [row for row in self._data if row['ref'] == ref]
Matching(data, ref) == SelectSeq(data, LAMBDA row : row.ref = ref)


(* ------------------------------ requests ------------------------------ *)
Project == "P"

\* one gerrit.make_call(method, endpoint, **payload): the endpoint is the
\* template with the project, the branch name or commit, and the quoted file
Req(method, template, target, file, payload) ==
    [method |-> method, project |-> Project, template |-> template,
     target |-> target, file |-> file, payload |-> payload]

NoPayload == "none"

\* urllib.parse.quote(token, safe=''): '/' becomes %2F
QuoteTok(t) ==
    CASE t = "refs/" -> "refs%2F"
      [] t = "heads/" -> "heads%2F"
      [] t = "meta/" -> "meta%2F"
      [] OTHER -> t

\* quote(file, safe='')
quote(file) == [i \in 1..Len(file) |-> QuoteTok(file[i])]

ListReq == Req("get", "/projects/%s/branches/", <<>>, <<>>, NoPayload)
PutReq(nm, input) == Req("put", "/projects/%s/branches/%s", nm, <<>>, input)
DeleteReq(nm) == Req("delete", "/projects/%s/branches/%s", nm, <<>>, NoPayload)

(* ------------------------------ the server ---------------------------- *)
\* the ref a branch name in a request path denotes on the server
ServerRef(nm) == IF StartsWith(nm, <<"refs/">>) THEN nm ELSE branch_prefix \o nm

HasBranch(srv, ref) == \E i \in 1..Len(srv) : srv[i].ref = ref

\* PUT /projects/{project}/branches/{name} can succeed
CanCreate(srv, nm) == ~HasBranch(srv, ServerRef(nm)) /\ Len(srv) < MaxBranches

\* DELETE /projects/{project}/branches/{name} can succeed
CanDelete(srv, nm) == HasBranch(srv, ServerRef(nm))

Created(srv, nm, input) == Append(srv, Rec(ServerRef(nm), input))

Deleted(srv, nm) == SelectSeq(srv, LAMBDA row : row.ref # ServerRef(nm))

(* ------------------------------ calls --------------------------------- *)
\* what a call did: key is its ref, key or name argument, value the Branch
\* objects (records) or the list it returned, carries the ref an
\* UnknownBranch error carries, reqs the requests it sent, in order
Call(op, key, input, outcome, value, carries, reqs) ==
    [op |-> op, key |-> key, input |-> input, outcome |-> outcome,
     value |-> value, carries |-> carries, reqs |-> reqs]

NoCall == Call("none", <<>>, NoPayload, "ok", <<>>, <<>>, <<>>)

\* Branch.parse(row, project=..., gerrit=...): the Branch holds the record
Parse(row) == <<row>>

\* a lookup that returns the last matching record instead of the first
GetItemLast(data, ref) ==
    IF ~StartsWith(ref, branch_prefix)
    THEN [outcome |-> "KeyError", value |-> <<>>, carries |-> <<>>]
    ELSE LET result == Matching(data, ref)
         IN  IF result # <<>>
             THEN [outcome |-> "ok", value |-> Parse(result[Len(result)]),
                   carries |-> <<>>]
             ELSE [outcome |-> "UnknownBranch", value |-> <<>>, carries |-> ref]

\* Branches.__getitem__: [outcome, value, carries]
__getitem__(data, ref) ==
    IF ~StartsWith(ref, branch_prefix)
    THEN [outcome |-> "KeyError", value |-> <<>>, carries |-> <<>>]
    ELSE LET result == Matching(data, ref)
         IN  IF result # <<>>
             THEN [outcome |-> "ok", value |-> Parse(result[1]), carries |-> <<>>]
             ELSE [outcome |-> "UnknownBranch", value |-> <<>>, carries |-> ref]

\* a delete that sends the request again when it fails
DeleteRetry(b, srv, ok) ==
    LET nm == name(b.ref)
    IN  IF ok /\ CanDelete(srv, nm)
        THEN [outcome |-> "ok", reqs |-> <<DeleteReq(nm)>>,
              server |-> Deleted(srv, nm)]
        ELSE [outcome |-> "RemoteFailure",
              reqs |-> <<DeleteReq(nm), DeleteReq(nm)>>, server |-> srv]

\* Branch.delete for the Branch b; ok: the server answers 2xx when it can.
\* [outcome, reqs, server]
delete(b, srv, ok) ==
    LET nm == name(b.ref)
    IN  IF ok /\ CanDelete(srv, nm)
        THEN [outcome |-> "ok", reqs |-> <<DeleteReq(nm)>>,
              server |-> Deleted(srv, nm)]
        ELSE [outcome |-> "RemoteFailure", reqs |-> <<DeleteReq(nm)>>,
              server |-> srv]

\* a create that adds the created record to the snapshot
CreateCaching(data, srv, nm, input, ok) ==
    LET ref == branch_prefix \o nm
    IN  IF __contains__(data, ref)
        THEN LET g == __getitem__(data, ref)
             IN  [outcome |-> g.outcome, value |-> g.value, carries |-> g.carries,
                  reqs |-> <<>>, server |-> srv, data |-> data]
        ELSE IF ok /\ CanCreate(srv, nm)
        THEN [outcome |-> "ok", value |-> Parse(Rec(ServerRef(nm), input)),
              carries |-> <<>>, reqs |-> <<PutReq(nm, input)>>,
              server |-> Created(srv, nm, input),
              data |-> Append(data, Rec(ServerRef(nm), input))]
        ELSE [outcome |-> "RemoteFailure", value |-> <<>>, carries |-> <<>>,
              reqs |-> <<PutReq(nm, input)>>, server |-> srv, data |-> data]

\* a create that asks the server whatever the snapshot holds
CreateAlwaysPut(data, srv, nm, input, ok) ==
    IF ok /\ CanCreate(srv, nm)
    THEN [outcome |-> "ok", value |-> Parse(Rec(ServerRef(nm), input)),
          carries |-> <<>>, reqs |-> <<PutReq(nm, input)>>,
          server |-> Created(srv, nm, input), data |-> data]
    ELSE [outcome |-> "RemoteFailure", value |-> <<>>, carries |-> <<>>,
          reqs |-> <<PutReq(nm, input)>>, server |-> srv, data |-> data]

\* Branches.create: [outcome, value, carries, reqs, server, data]
create(data, srv, nm, input, ok) ==
    LET ref == branch_prefix \o nm
    IN  IF __contains__(data, ref)
        THEN LET g == __getitem__(data, ref)
             IN  [outcome |-> g.outcome, value |-> g.value, carries |-> g.carries,
                  reqs |-> <<>>, server |-> srv, data |-> data]
        ELSE IF ok /\ CanCreate(srv, nm)
        THEN [outcome |-> "ok", value |-> Parse(Rec(ServerRef(nm), input)),
              carries |-> <<>>, reqs |-> <<PutReq(nm, input)>>,
              server |-> Created(srv, nm, input), data |-> data]
        ELSE [outcome |-> "RemoteFailure", value |-> <<>>, carries |-> <<>>,
              reqs |-> <<PutReq(nm, input)>>, server |-> srv, data |-> data]

(* ------------------------------ inputs -------------------------------- *)
Master == branch_prefix \o <<"m">>
Nested == branch_prefix \o branch_prefix \o <<"m">>

\* the refs, keys and names the operations are called with
KeyInputs == {Master, Nested, ConfigRef, <<"m">>}
NameInputs == {<<"m">>, <<"heads/", "m">>, Master}
BranchInputs == Revisions
Files == {<<"m">>, <<"heads/", "m">>}
Commits == {<<"abc123">>}

RECURSIVE SeqsUpTo(_, _)
\* the sequences over S of length at most n
SeqsUpTo(S, n) ==
    IF n = 0 THEN {<<>>}
    ELSE LET shorter == SeqsUpTo(S, n - 1)
         IN  shorter \cup {Append(q, x) : q \in shorter, x \in S}

NoRepeatedRef(q) == \A i, j \in 1..Len(q) : q[i].ref = q[j].ref => i = j

\* the branch lists of a server: one record per ref
ServerLists ==
    {q \in SeqsUpTo({Rec(r, "abc123") : r \in {Master, Nested, ConfigRef}},
                    MaxBranches) : NoRepeatedRef(q)}

\* the lists a response can decode to: any records in any order
ResponseLists ==
    SeqsUpTo({Rec(r, v) : r \in {Master, ConfigRef}, v \in Revisions}, MaxResp)

(* ------------------------------ actions ------------------------------- *)
\* the Branch objects a caller can hold: those of the snapshot (from
\* __getitem__ and __iter__) and the one the last create returned
Held ==
    Range(_data) \cup
    (IF last.op = "create" /\ last.outcome = "ok" THEN Range(last.value) ELSE {})

\* Branches(project, gerrit): self._data = self.poll()
Construct ==
    /\ ~built
    /\ \E ok \in BOOLEAN :
        IF ok
        THEN /\ built' = TRUE
             /\ _data' = poll(server)
             /\ last' = Call("__init__", <<>>, NoPayload, "ok", <<>>, <<>>,
                             <<ListReq>>)
        ELSE /\ UNCHANGED <<built, _data>>
             /\ last' = Call("__init__", <<>>, NoPayload, "RemoteFailure", <<>>,
                             <<>>, <<ListReq>>)
    /\ UNCHANGED server

\* branches.poll(): the filtered list is returned
Poll ==
    /\ built
    /\ \E ok \in BOOLEAN :
        last' = IF ok
                THEN Call("poll", <<>>, NoPayload, "ok", poll(server), <<>>,
                          <<ListReq>>)
                ELSE Call("poll", <<>>, NoPayload, "RemoteFailure", <<>>, <<>>,
                          <<ListReq>>)
    /\ UNCHANGED <<server, _data, built>>

\* branches.keys() (and list(branches.iterkeys()))
Keys ==
    /\ built
    /\ last' = Call("keys", <<>>, NoPayload, "ok", keys(_data), <<>>, <<>>)
    /\ UNCHANGED <<server, _data, built>>

\* len(branches)
Len_ ==
    /\ built
    /\ last' = Call("__len__", <<>>, NoPayload, "ok", <<__len__(_data)>>, <<>>, <<>>)
    /\ UNCHANGED <<server, _data, built>>

\* ref in branches
Contains ==
    /\ built
    /\ \E ref \in KeyInputs :
        last' = Call("__contains__", ref, NoPayload, "ok",
                     <<__contains__(_data, ref)>>, <<>>, <<>>)
    /\ UNCHANGED <<server, _data, built>>

\* list(branches): a Branch per cached record
Iter ==
    /\ built
    /\ last' = Call("__iter__", <<>>, NoPayload, "ok", _data, <<>>, <<>>)
    /\ UNCHANGED <<server, _data, built>>

\* branches[ref]
GetItem ==
    /\ built
    /\ \E ref \in KeyInputs :
        LET g == __getitem__(_data, ref)
        IN  last' = Call("__getitem__", ref, NoPayload, g.outcome, g.value,
                         g.carries, <<>>)
    /\ UNCHANGED <<server, _data, built>>

\* branches.create(name, BranchInput)
Create ==
    /\ built
    /\ \E nm \in NameInputs, input \in BranchInputs, ok \in BOOLEAN :
        LET c == create(_data, server, nm, input, ok)
        IN  /\ last' = Call("create", nm, input, c.outcome, c.value, c.carries,
                            c.reqs)
            /\ server' = c.server
            /\ _data' = c.data
    /\ UNCHANGED built

\* branches[key] = value
SetItem ==
    /\ built
    /\ \E key \in KeyInputs, input \in BranchInputs, ok \in BOOLEAN :
        IF ~StartsWith(key, branch_prefix)
        THEN /\ last' = Call("__setitem__", key, input, "KeyError", <<>>, <<>>,
                             <<>>)
             /\ UNCHANGED <<server, _data>>
        ELSE LET c == create(_data, server, Replace(key, branch_prefix), input, ok)
             IN  /\ last' = Call("__setitem__", key, input, c.outcome, <<>>,
                                 c.carries, c.reqs)
                 /\ server' = c.server
                 /\ _data' = c.data
    /\ UNCHANGED built

\* a del that also drops the deleted record from the snapshot
DelItemEvicting ==
    /\ built
    /\ \E key \in KeyInputs, ok \in BOOLEAN :
        LET g == __getitem__(_data, key)
        IN  IF g.outcome # "ok"
            THEN /\ last' = Call("__delitem__", key, NoPayload, g.outcome, <<>>,
                                 g.carries, <<>>)
                 /\ UNCHANGED <<server, _data>>
            ELSE LET d == delete(g.value[1], server, ok)
                 IN  /\ last' = Call("__delitem__", key, NoPayload, d.outcome,
                                     <<>>, <<>>, d.reqs)
                     /\ server' = d.server
                     /\ _data' = IF d.outcome = "ok"
                                 THEN RemoveFirst(_data, g.value[1])
                                 ELSE _data
    /\ UNCHANGED built

\* del branches[key]
DelItem ==
    /\ built
    /\ \E key \in KeyInputs, ok \in BOOLEAN :
        LET g == __getitem__(_data, key)
        IN  IF g.outcome # "ok"
            THEN /\ last' = Call("__delitem__", key, NoPayload, g.outcome, <<>>,
                                 g.carries, <<>>)
                 /\ UNCHANGED server
            ELSE LET d == delete(g.value[1], server, ok)
                 IN  /\ last' = Call("__delitem__", key, NoPayload, d.outcome,
                                     <<>>, <<>>, d.reqs)
                     /\ server' = d.server
    /\ UNCHANGED <<_data, built>>

\* branch.delete() on a held Branch
Delete ==
    /\ built
    /\ \E b \in Held, ok \in BOOLEAN :
        LET d == delete(b, server, ok)
        IN  /\ last' = Call("delete", b.ref, NoPayload, d.outcome, <<>>, <<>>,
                            d.reqs)
            /\ server' = d.server
    /\ UNCHANGED <<_data, built>>

\* an operation that sends one request and returns the decoded response:
\* make_call, then decode_response, which raises on a failed response
Fetch(op, key, input, rq, ok) ==
    IF ok
    THEN Call(op, key, input, "ok", <<"decoded">>, <<>>, <<rq>>)
    ELSE Call(op, key, input, "RemoteFailure", <<>>, <<>>, <<rq>>)

\* branch.get_file_content(file)
BranchGetFileContent ==
    /\ built
    /\ \E b \in Held, file \in Files, ok \in BOOLEAN :
        last' = Fetch("Branch.get_file_content", b.ref, NoPayload,
                      Req("get", "/projects/%s/branches/%s/files/%s/content",
                          name(b.ref), quote(file), NoPayload), ok)
    /\ UNCHANGED <<server, _data, built>>

\* branch.get_mergeable_information(MergeInput)
GetMergeableInformation ==
    /\ built
    /\ \E b \in Held, ok \in BOOLEAN :
        last' = Fetch("get_mergeable_information", b.ref, "MergeInput",
                      Req("get", "/projects/%s/branches/%s/mergeable",
                          name(b.ref), <<>>, "MergeInput"), ok)
    /\ UNCHANGED <<server, _data, built>>

\* branch.get_reflog()
GetReflog ==
    /\ built
    /\ \E b \in Held, ok \in BOOLEAN :
        last' = Fetch("get_reflog", b.ref, NoPayload,
                      Req("get", "/projects/%s/branches/%s/reflog",
                          name(b.ref), <<>>, NoPayload), ok)
    /\ UNCHANGED <<server, _data, built>>

\* commit.get_include_in()
GetIncludeIn ==
    /\ \E c \in Commits, ok \in BOOLEAN :
        last' = Fetch("get_include_in", c, NoPayload,
                      Req("get", "/projects/%s/commits/%s/in", c, <<>>,
                          NoPayload), ok)
    /\ UNCHANGED <<server, _data, built>>

\* commit.get_file_content(file)
CommitGetFileContent ==
    /\ \E c \in Commits, file \in Files, ok \in BOOLEAN :
        last' = Fetch("Commit.get_file_content", c, NoPayload,
                      Req("get", "/projects/%s/commits/%s/files/%s/content", c,
                          quote(file), NoPayload), ok)
    /\ UNCHANGED <<server, _data, built>>

\* commit.cherry_pick(CherryPickInput)
CherryPick ==
    /\ \E c \in Commits, ok \in BOOLEAN :
        last' = Fetch("cherry_pick", c, "CherryPickInput",
                      Req("post", "/projects/%s/commits/%s/cherrypick", c, <<>>,
                          "CherryPickInput"), ok)
    /\ UNCHANGED <<server, _data, built>>

\* commit.list_change_files()
ListChangeFiles ==
    /\ \E c \in Commits, ok \in BOOLEAN :
        last' = Fetch("list_change_files", c, NoPayload,
                      Req("get", "/projects/%s/commits/%s/files/", c, <<>>,
                          NoPayload), ok)
    /\ UNCHANGED <<server, _data, built>>

\* Branch(ref=ref).name
BranchName ==
    /\ \E ref \in SeqsUpTo(Tokens, MaxLen) :
        last' = Call("name", ref, NoPayload, "ok", name(ref), <<>>, <<>>)
    /\ UNCHANGED <<server, _data, built>>

(* --------------------------- specifications --------------------------- *)
Unbuilt ==
    /\ _data = <<>>
    /\ built = FALSE
    /\ last = NoCall
    /\ prev = NoCall

\* a project on a server, before Branches(project, gerrit) is called
Init ==
    /\ server \in ServerLists
    /\ Unbuilt

Next ==
    \/ Construct /\ UNCHANGED prev
    \/ Poll /\ UNCHANGED prev
    \/ Keys /\ UNCHANGED prev
    \/ Len_ /\ UNCHANGED prev
    \/ Contains /\ UNCHANGED prev
    \/ Iter /\ UNCHANGED prev
    \/ GetItem /\ UNCHANGED prev
    \/ Create /\ UNCHANGED prev
    \/ SetItem /\ UNCHANGED prev
    \/ DelItem /\ UNCHANGED prev
    \/ Delete /\ UNCHANGED prev
    \/ BranchGetFileContent /\ UNCHANGED prev
    \/ GetMergeableInformation /\ UNCHANGED prev
    \/ GetReflog /\ UNCHANGED prev
    \/ GetIncludeIn /\ UNCHANGED prev
    \/ CommitGetFileContent /\ UNCHANGED prev
    \/ CherryPick /\ UNCHANGED prev
    \/ ListChangeFiles /\ UNCHANGED prev

Spec == Init /\ [][Next]_vars

\* the collection over any list a response can decode to: construction and
\* the reads of the snapshot
InitPoll ==
    /\ server \in ResponseLists
    /\ Unbuilt

NextPoll ==
    \/ Construct /\ UNCHANGED prev
    \/ Keys /\ UNCHANGED prev
    \/ Len_ /\ UNCHANGED prev
    \/ Contains /\ UNCHANGED prev
    \/ Iter /\ UNCHANGED prev
    \/ GetItem /\ UNCHANGED prev

SpecPoll == InitPoll /\ [][NextPoll]_vars

\* the writes and the refresh, with the last two calls tracked
NextHist ==
    \/ Construct /\ prev' = last
    \/ Poll /\ prev' = last
    \/ Create /\ prev' = last
    \/ SetItem /\ prev' = last
    \/ DelItem /\ prev' = last

SpecHist == Init /\ [][NextHist]_vars

\* Branch.name over every ref of at most MaxLen tokens
InitName ==
    /\ server = <<>>
    /\ Unbuilt

NextName == BranchName /\ UNCHANGED prev

SpecName == InitName /\ [][NextName]_vars

(* ------------------------------ claims -------------------------------- *)
NotConfig(data) == SelectSeq(data, LAMBDA row : row.ref # ConfigRef)

\* C1 (SpecPoll): once Branches is constructed, whatever list the server
\* returned, no record of the snapshot has the ref refs/meta/config: it is
\* not in keys(), no Branch of __iter__ has it, and __contains__ of it is
\* false.
C1_ConfigNeverCached ==
    built =>
        /\ \A i \in 1..Len(_data) : _data[i].ref # ConfigRef
        /\ ConfigRef \notin Range(keys(_data))
        /\ ~__contains__(_data, ConfigRef)

\* C2 (SpecPoll): once Branches is constructed, len(branches) is the number
\* of returned records whose ref is not refs/meta/config, and keys() is the
\* refs of those records in the server's order.
C2_LenAndKeysOfNonConfig ==
    built =>
        /\ __len__(_data) = Len(NotConfig(server))
        /\ keys(_data) = [i \in 1..Len(NotConfig(server)) |-> NotConfig(server)[i].ref]

\* C6 (SpecPoll): branches[ref] sends no request and ends in exactly one of
\* three ways, decided by the snapshot: KeyError when ref lacks the prefix
\* refs/heads/; UnknownBranch carrying ref when it has the prefix and no
\* cached record has that ref; otherwise the Branch of the first cached
\* record whose ref is ref.
C6_GetItemOutcomes ==
    last.op = "__getitem__" =>
        LET ref == last.key
            hits == {i \in 1..Len(_data) : _data[i].ref = ref}
        IN  /\ last.reqs = <<>>
            /\ last.outcome \in {"KeyError", "UnknownBranch", "ok"}
            /\ last.outcome = "KeyError" <=> ~StartsWith(ref, branch_prefix)
            /\ last.outcome = "UnknownBranch" <=>
                   (StartsWith(ref, branch_prefix) /\ hits = {})
            /\ last.outcome = "UnknownBranch" => last.carries = ref
            /\ last.outcome = "ok" =>
                   \E i \in hits :
                       /\ \A j \in hits : i <= j
                       /\ last.value = <<_data[i]>>

\* a lookup that found its ref twice in the snapshot, with different records
C6_Witness ==
    /\ last.op = "__getitem__"
    /\ last.outcome = "ok"
    /\ \E i, j \in 1..Len(_data) :
           i < j /\ _data[i].ref = last.key /\ _data[j].ref = last.key
           /\ _data[i] # _data[j]

\* C10 (SpecName): Branch.name removes the leading refs/heads/ and nothing
\* else: refs/heads/ + name is ref when ref starts with refs/heads/, and
\* name is ref when it does not.
C10_NameStripsLeadingPrefix ==
    last.op = "name" =>
        IF StartsWith(last.key, branch_prefix)
        THEN branch_prefix \o last.value = last.key
        ELSE last.value = last.key

\* two consecutive create calls with the same name, the first of which sent
\* its PUT (the ref was not in the snapshot) and succeeded
TwoCreates ==
    /\ prev.op = "create"
    /\ last.op = "create"
    /\ prev.key = last.key
    /\ prev.outcome = "ok"
    /\ prev.reqs # <<>>

\* C3 (SpecHist), as stated: of two consecutive create calls with the same
\* name, the ref not being in the snapshot before the first, the second
\* sends no request and returns the Branch the first call returned: one PUT
\* in total.
C3_SecondCreateFromCache ==
    TwoCreates =>
        /\ last.reqs = <<>>
        /\ last.outcome = "ok"
        /\ last.value = prev.value
        /\ Len(prev.reqs) + Len(last.reqs) = 1

\* C3 (SpecHist), amended: of two consecutive create calls with the same
\* name, the ref not being in the snapshot before the first, the second
\* finds the snapshot as the first did and sends a PUT of its own for that
\* name: two PUT requests in total.
C3_SecondCreatePutsAgain ==
    TwoCreates =>
        /\ ~__contains__(_data, branch_prefix \o last.key)
        /\ last.reqs = <<PutReq(last.key, last.input)>>
        /\ Len(prev.reqs) + Len(last.reqs) = 2

C3_Witness ==
    /\ TwoCreates
    /\ Len(last.reqs) = 1
    /\ HasBranch(server, prev.value[1].ref)

\* C4 (SpecHist): after a successful create of a new branch, or a successful
\* del of a cached branch, and then a successful poll(), keys(), __len__ and
\* __contains__ give the server's branches as of that poll: the created ref
\* is present, the deleted ref is absent.
C4_PollRefreshes ==
    (last.op = "poll" /\ last.outcome = "ok" /\ prev.outcome = "ok") =>
        /\ (prev.op = "create" /\ prev.reqs # <<>>) =>
               /\ keys(_data) = keys(last.value)
               /\ __len__(_data) = Len(last.value)
               /\ __contains__(_data, prev.value[1].ref)
        /\ prev.op = "__delitem__" =>
               /\ keys(_data) = keys(last.value)
               /\ __len__(_data) = Len(last.value)
               /\ ~__contains__(_data, prev.key)

WriteOps == {"create", "__setitem__", "__delitem__", "delete"}

\* C5 (Spec): a create, __setitem__, __delitem__ or Branch.delete call,
\* successful or failing, leaves the snapshot as it was: keys(), __len__,
\* __contains__ and __iter__ give after it what they gave before it.
C5_WritesKeepSnapshot ==
    [][(built /\ last'.op \in WriteOps) =>
          /\ keys(_data') = keys(_data)
          /\ __len__(_data') = __len__(_data)
          /\ \A ref \in KeyInputs :
                 __contains__(_data', ref) = __contains__(_data, ref)
          /\ _data' = _data]_vars

\* a successful del of a cached branch: the server has lost a branch that
\* keys() still lists
C5_Witness ==
    /\ last.op = "__delitem__"
    /\ last.outcome = "ok"
    /\ \E ref \in Range(keys(_data)) : ref # ConfigRef /\ ~HasBranch(server, ref)

\* C7 (Spec): create(name, input) with refs/heads/ + name in the cached
\* keys() sends no request and returns the Branch of the cached record of
\* that ref; with the ref absent from the cached keys() it sends one PUT for
\* the branch name with input as payload.
C7_CreateShortCircuits ==
    last.op = "create" =>
        LET ref == branch_prefix \o last.key
        IN  IF ref \in Range(keys(_data))
            THEN /\ last.reqs = <<>>
                 /\ last.outcome = "ok"
                 /\ \E i \in 1..Len(_data) :
                        /\ _data[i].ref = ref
                        /\ \A j \in 1..(i - 1) : _data[j].ref # ref
                        /\ last.value = <<_data[i]>>
            ELSE /\ Len(last.reqs) = 1
                 /\ last.reqs[1].method = "put"
                 /\ last.reqs[1].template = "/projects/%s/branches/%s"
                 /\ last.reqs[1].target = last.key
                 /\ last.reqs[1].payload = last.input

\* a create answered from the snapshot for a branch the server has lost
C7_Witness ==
    /\ last.op = "create"
    /\ last.reqs = <<>>
    /\ last.outcome = "ok"
    /\ ~HasBranch(server, branch_prefix \o last.key)

\* C8 (Spec): every call sends at most one request, and a call whose remote
\* call failed raised after exactly one.
C8_AtMostOneRequest ==
    /\ Len(last.reqs) <= 1
    /\ last.outcome = "RemoteFailure" => Len(last.reqs) = 1

\* a del whose DELETE failed
C8_Witness ==
    /\ last.op = "__delitem__"
    /\ last.outcome = "RemoteFailure"
    /\ Len(last.reqs) = 1

\* C9 (Spec): branches[key] = value and del branches[key] with a key lacking
\* the prefix raise KeyError with no request; del with a prefixed key absent
\* from the snapshot raises UnknownBranch with no request; del with a
\* prefixed key in the snapshot sends exactly one DELETE for that branch; and
\* branches[key] = value with a prefixed key absent from the snapshot sends
\* exactly one PUT, for the name that is key without its leading refs/heads/.
C9_MappingWrites ==
    LET key == last.key
        cached == key \in Range(keys(_data))
        stripped == Drop(key, Len(branch_prefix))
    IN  /\ (last.op \in {"__setitem__", "__delitem__"}
             /\ ~StartsWith(key, branch_prefix)) =>
               (last.outcome = "KeyError" /\ last.reqs = <<>>)
        /\ (last.op = "__delitem__" /\ StartsWith(key, branch_prefix)
             /\ ~cached) =>
               (last.outcome = "UnknownBranch" /\ last.reqs = <<>>)
        /\ (last.op = "__delitem__" /\ StartsWith(key, branch_prefix)
             /\ cached) =>
               last.reqs = <<DeleteReq(stripped)>>
        /\ (last.op = "__setitem__" /\ StartsWith(key, branch_prefix)
             /\ ~cached) =>
               /\ Len(last.reqs) = 1
               /\ last.reqs[1].method = "put"
               /\ last.reqs[1].target = stripped
               /\ branch_prefix \o last.reqs[1].target = key

=============================================================================
